---------------------------- MODULE Spec2Model ----------------------------
(***************************************************************************)
(* Model of the AsiaServisPortal PDF dashboard (src/app).                  *)
(*                                                                         *)
(*   parser.py   positional table extraction: _parse_rows_by_columns,      *)
(*               parse_report_pdf                                          *)
(*   main.py     _period_start and the /report aggregation (page_report),  *)
(*               the upload, history and commit handlers                   *)
(*   storage.py  save_temp_pdf, cleanup_expired_files, commit_uploads,     *)
(*               list_uploads, file_exists                                 *)
(*                                                                         *)
(* Texts are TLA+ strings; a character is read with SubSeq(s, i, i).       *)
(* Token coordinates (x0, top) are integers; the code's 2.5 tolerance is   *)
(* kept exact by comparing 2 * |d| with 5.                                 *)
(***************************************************************************)
EXTENDS Integers, Sequences, FiniteSets, TLC

VARIABLES
    uploads,      \* rows of the uploads table, in insertion order (db.py:13-19)
    tmp_files,    \* ids whose <id>.pdf is present in TMP_DIR
    perm_files,   \* ids whose <id>.pdf is present in PERM_DIR
    now,          \* wall clock, seconds
    response,     \* what the last handler answered
    pdf,          \* parser input: the pages of one PDF, each a list of words
    parsed,       \* parse_report_pdf's result for pdf
    parse_trace,  \* per page, per anchor: which word supplied which field
    commit,       \* per worker thread: the commit_uploads call it is running
    cleanup,      \* the cleanup_expired_files call in progress
    save,         \* the save_temp_pdf call in progress
    unlinked      \* ids of the files cleanup_expired_files has deleted

vars == <<uploads, tmp_files, perm_files, now, response, pdf, parsed, parse_trace,
          commit, cleanup, save, unlinked>>

-----------------------------------------------------------------------------
(* Characters and the regular expressions of parser.py and main.py           *)

Char(s, i) == SubSeq(s, i, i)

Digit == {"0", "1", "2", "3", "4", "5", "6", "7", "8", "9"}

Upper == {"A", "B", "C", "D", "E", "F", "G", "H", "I", "J", "K", "L", "M",
          "N", "O", "P", "Q", "R", "S", "T", "U", "V", "W", "X", "Y", "Z"}

AllIn(s, S) == \A i \in 1..Len(s) : Char(s, i) \in S

\* re.fullmatch(r"\d{12}", t)
IsIin(t) == Len(t) = 12 /\ AllIn(t, Digit)

\* re.fullmatch(r"[A-Z0-9]{7,8}", t)
IsBankBase(t) == Len(t) \in {7, 8} /\ AllIn(t, Upper \cup Digit)

\* re.fullmatch(r"KZ[0-9A-Z]{5}", t)
IsIikPrefix(t) ==
    /\ Len(t) = 7
    /\ SubSeq(t, 1, 2) = "KZ"
    /\ AllIn(SubSeq(t, 3, 7), Upper \cup Digit)

\* re.fullmatch(r"\d{6}", t)
IsKbk(t) == Len(t) = 6 /\ AllIn(t, Digit)

\* re.fullmatch(r"\d[\d,]*\.\d{2}", t)
IsAmount(t) ==
    /\ Len(t) >= 4
    /\ Char(t, 1) \in Digit
    /\ AllIn(SubSeq(t, 2, Len(t) - 3), Digit \cup {","})
    /\ Char(t, Len(t) - 2) = "."
    /\ AllIn(SubSeq(t, Len(t) - 1, Len(t)), Digit)

\* re.fullmatch(r"\d+\*?", t)
IsPayNo(t) ==
    /\ Len(t) >= 1
    /\ \/ AllIn(t, Digit)
       \/ /\ Len(t) >= 2
          /\ Char(t, Len(t)) = "*"
          /\ AllIn(SubSeq(t, 1, Len(t) - 1), Digit)

\* re.fullmatch(r"[A-Z]", t)
IsSuffix(t) == Len(t) = 1 /\ AllIn(t, Upper)

\* re.fullmatch(r"[0-9A-Z]+", t)
IsIikPart(t) == Len(t) >= 1 /\ AllIn(t, Upper \cup Digit)

-----------------------------------------------------------------------------
(* Lists                                                                     *)

Abs(n) == IF n < 0 THEN -n ELSE n

\* F(v), with v evaluated once: TLC evaluates the arguments of an operator
\* and the definitions of a LET by name, a bound variable by value
With(v, F(_)) == CHOOSE r \in {F(x) : x \in {v}} : TRUE

\* Python's list.sort / sorted: stable.  s is sorted under the strict order
\* Less; elements that are not ordered by Less keep their encounter order.
StableSort(s, Less(_, _)) ==
    With(s, LAMBDA v :
        With([i \in 1..Len(v) |->
                 Cardinality({j \in 1..Len(v) : Less(v[j], v[i])})
                 + Cardinality({j \in 1..(i - 1) :
                                   ~Less(v[j], v[i]) /\ ~Less(v[i], v[j])})
                 + 1],
             LAMBDA rank :
                [p \in 1..Len(v) |-> v[CHOOSE i \in 1..Len(v) : rank[i] = p]]))

\* "".join(parts)
RECURSIVE Join(_)
Join(parts) ==
    IF parts = <<>> THEN "" ELSE Head(parts) \o Join(Tail(parts))

\* the concatenation of a list of lists
RECURSIVE Flatten(_)
Flatten(ss) ==
    IF ss = <<>> THEN <<>> ELSE Head(ss) \o Flatten(Tail(ss))

-----------------------------------------------------------------------------
(* parser.py: _parse_rows_by_columns.  A word is [text, x0, top]; the words  *)
(* of a page are handled by their index in page.extract_words(), so that    *)
(* the word that supplied a field stays known.                               *)

\* a word of page.extract_words()
W(t, x, y) == [text |-> t, x0 |-> x, top |-> y]

Indices(words) == [i \in 1..Len(words) |-> i]

\* parser.py:45-46  the 12-digit words, sorted by top
IinWords(words) ==
    LET isIin(i) == IsIin(words[i].text)
        byTop(i, j) == words[i].top < words[j].top
    IN  StableSort(SelectSeq(Indices(words), isIin), byTop)

\* parser.py:51
NextTop(words, iin_words, idx) ==
    IF idx + 1 <= Len(iin_words) THEN words[iin_words[idx + 1]].top ELSE 10^9

\* parser.py:54  abs(w["top"] - top) < 2.5
InLine(w, top) == 2 * Abs(w.top - top) < 5

\* parser.py:54-55  the row's core band, sorted by x0
Line(words, top) ==
    LET inLine(i) == InLine(words[i], top)
        byX0(i, j) == words[i].x0 < words[j].x0
    IN  StableSort(SelectSeq(Indices(words), inLine), byX0)

\* parser.py:93  top < w["top"] < next_top
InBetween(w, top, next_top) == top < w.top /\ w.top < next_top

\* parser.py:93-94  the continuation region, sorted by (top, x0)
Between(words, top, next_top) ==
    LET inBetween(i) == InBetween(words[i], top, next_top)
        byTopX0(i, j) ==
            \/ words[i].top < words[j].top
            \/ words[i].top = words[j].top /\ words[i].x0 < words[j].x0
    IN  StableSort(SelectSeq(Indices(words), inBetween), byTopX0)

\* parser.py:68
BankBaseMatch(w) == 320 <= w.x0 /\ w.x0 <= 385 /\ IsBankBase(w.text)

\* parser.py:72
IikPrefixMatch(w) == 385 <= w.x0 /\ w.x0 <= 470 /\ IsIikPrefix(w.text)

\* parser.py:76
KbkMatch(w) == 420 <= w.x0 /\ w.x0 <= 500 /\ IsKbk(w.text)

\* parser.py:80
AmountMatch(w) == w.x0 >= 505 /\ IsAmount(w.text)

PayNoMatchDigitsOnly(w) == Len(w.text) >= 1 /\ AllIn(w.text, Digit)

\* parser.py:86
PayNoMatch(w) == IsPayNo(w.text)

\* parser.py:99
SuffixMatch(w) == 320 <= w.x0 /\ w.x0 <= 385 /\ IsSuffix(w.text)

\* parser.py:110
IikPartMatch(w) == 385 <= w.x0 /\ w.x0 <= 470 /\ IsIikPart(w.text)

\* a loop that assigns on every match: the last matching word wins (0: none)
LastMatch(words, list, Match(_)) ==
    LET m(i) == Match(words[i])
        hits == SelectSeq(list, m)
    IN  IF hits = <<>> THEN 0 ELSE hits[Len(hits)]

\* a loop that breaks on the first match (0: none)
FirstMatch(words, list, Match(_)) ==
    LET m(i) == Match(words[i])
        hits == SelectSeq(list, m)
    IN  IF hits = <<>> THEN 0 ELSE hits[1]

TextOf(words, i) == IF i = 0 THEN "" ELSE words[i].text

MergeBankCodeAlways(bank_base, suffix) ==
    IF bank_base # "" /\ suffix # "" THEN bank_base \o suffix ELSE bank_base

\* parser.py:103-105
MergeBankCode(bank_base, suffix) ==
    IF bank_base # "" /\ Len(bank_base) = 7 /\ suffix # ""
    THEN bank_base \o suffix
    ELSE bank_base

\* parser.py:113-116
MergeIik(iik_prefix, cont_parts) ==
    LET iik == iik_prefix \o Join(cont_parts)
    IN  IF Len(iik) > 20 THEN SubSeq(iik, 1, 20) ELSE iik

\* parser.py:57-88  the fields read from the row's line
LineSources(words, line) ==
    [pay_no     |-> FirstMatch(words, line, PayNoMatch),
     bank_base  |-> LastMatch(words, line, BankBaseMatch),
     iik_prefix |-> LastMatch(words, line, IikPrefixMatch),
     kbk        |-> LastMatch(words, line, KbkMatch),
     amount     |-> LastMatch(words, line, AmountMatch)]

\* parser.py:96-111  the fragments read from the continuation region
BetweenSources(words, between) ==
    LET isPart(i) == IikPartMatch(words[i])
    IN  [suffix |-> FirstMatch(words, between, SuffixMatch),
         cont   |-> SelectSeq(between, isPart)]

\* parser.py:49-126  one pass of the loop over iin_words: the row appended
\* (rec), the bounds of its continuation region (top, next_top) and the
\* index of the word each field was read from (src; 0: none)
ParseRow(words, iin_words, idx) ==
    LET iw       == iin_words[idx]
        top      == words[iw].top
        next_top == NextTop(words, iin_words, idx)
    IN  With(LineSources(words, Line(words, top)), LAMBDA ls :
        With(BetweenSources(words, Between(words, top, next_top)), LAMBDA bs :
            [rec |-> [pay_no    |-> TextOf(words, ls.pay_no),
                      iin_bin   |-> words[iw].text,
                      bank_code |-> MergeBankCode(TextOf(words, ls.bank_base),
                                                  TextOf(words, bs.suffix)),
                      iik       |-> MergeIik(TextOf(words, ls.iik_prefix),
                                            [k \in 1..Len(bs.cont) |->
                                                words[bs.cont[k]].text]),
                      kbk       |-> TextOf(words, ls.kbk),
                      amount_in |-> TextOf(words, ls.amount)],
             top |-> top,
             next_top |-> next_top,
             src |-> [anchor |-> iw, pay_no |-> ls.pay_no,
                      bank_base |-> ls.bank_base, iik_prefix |-> ls.iik_prefix,
                      kbk |-> ls.kbk, amount |-> ls.amount,
                      suffix |-> bs.suffix, cont |-> bs.cont]]))

\* parser.py:48-126  rows, before deduplication
ParsedRows(words) ==
    With(IinWords(words), LAMBDA iin_words :
        [idx \in 1..Len(iin_words) |-> ParseRow(words, iin_words, idx)])

\* parser.py:132
RowKey(r) == <<r.pay_no, r.iin_bin, r.bank_code, r.iik, r.kbk, r.amount_in>>

\* parser.py:129-136  keep the first row of every key
UniqRows(rows) ==
    LET first(i) == \A j \in 1..(i - 1) : RowKey(rows[j].rec) # RowKey(rows[i].rec)
    IN  SelectSeq([i \in 1..Len(rows) |-> i], first)

\* parser.py:33-138  the rows of one page, with their sources
ParsePageTrace(words) ==
    With(words, LAMBDA ws :
        With(ParsedRows(ws), LAMBDA rows :
            With(UniqRows(rows), LAMBDA uniq :
                [k \in 1..Len(uniq) |-> rows[uniq[k]]])))

\* parser.py:33-138
ParseRowsByColumns(words) ==
    With(ParsePageTrace(words), LAMBDA t : [k \in 1..Len(t) |-> t[k].rec])

\* parser.py:140-157  a PDF is [meta, pages]: meta is what _extract_meta
\* finds in the text of the pages, pages are the words of each page
ParseReportPdf(f) ==
    With(f, LAMBDA file :
        [region      |-> file.meta.region,
         report_date |-> file.meta.report_date,
         period      |-> file.meta.period,
         rows        |-> Flatten([p \in 1..Len(file.pages) |->
                                     ParseRowsByColumns(file.pages[p])])])

-----------------------------------------------------------------------------
(* main.py: _period_start.  A datetime is the tuple                          *)
(* <<year, month, day, hour, minute, second, microsecond>>.                  *)

Whitespace == {" ", "\t", "\n"}

DigitSeq == <<"0", "1", "2", "3", "4", "5", "6", "7", "8", "9">>

DigitVal(c) == (CHOOSE i \in 1..10 : DigitSeq[i] = c) - 1

RECURSIVE ToInt(_)
ToInt(s) ==
    IF s = "" THEN 0
    ELSE 10 * ToInt(SubSeq(s, 1, Len(s) - 1)) + DigitVal(Char(s, Len(s)))

\* \d{2}\.\d{2}\.\d{4} at position i of s
DateAt(s, i) ==
    /\ i >= 1 /\ i + 9 <= Len(s)
    /\ AllIn(SubSeq(s, i, i + 1), Digit)
    /\ Char(s, i + 2) = "."
    /\ AllIn(SubSeq(s, i + 3, i + 4), Digit)
    /\ Char(s, i + 5) = "."
    /\ AllIn(SubSeq(s, i + 6, i + 9), Digit)

\* main.py:36-38  RE_PERIOD_RANGE matches at position i of s
PeriodRangeAt(s, i) ==
    /\ DateAt(s, i)
    /\ \E j \in (i + 10)..Len(s) :
          /\ AllIn(SubSeq(s, i + 10, j - 1), Whitespace)
          /\ Char(s, j) = "-"
          /\ \E k \in (j + 1)..Len(s) :
                /\ AllIn(SubSeq(s, j + 1, k - 1), Whitespace)
                /\ DateAt(s, k)

\* main.py:41  RE_PERIOD_RANGE.search(period): the leftmost match (0: none)
PeriodRangeSearch(s) ==
    LET hits == {i \in 1..Len(s) : PeriodRangeAt(s, i)}
    IN  IF hits = {} THEN 0
        ELSE CHOOSE i \in hits : \A j \in hits : i <= j

IsLeap(y) == y % 4 = 0 /\ (y % 100 # 0 \/ y % 400 = 0)

DaysIn(m, y) ==
    IF m = 2 THEN (IF IsLeap(y) THEN 29 ELSE 28)
    ELSE IF m \in {4, 6, 9, 11} THEN 30 ELSE 31

\* datetime.max
DatetimeMax == <<9999, 12, 31, 23, 59, 59, 999999>>

\* main.py:44  datetime.strptime(s, "%d.%m.%Y") for s of the shape
\* DD.MM.YYYY: the datetime, or ValueError for a date that does not exist
Strptime(s) ==
    LET d == ToInt(SubSeq(s, 1, 2))
        m == ToInt(SubSeq(s, 4, 5))
        y == ToInt(SubSeq(s, 7, 10))
    IN  IF y >= 1 /\ m >= 1 /\ m <= 12 /\ d >= 1 /\ d <= DaysIn(m, y)
        THEN [raised |-> FALSE, value |-> <<y, m, d, 0, 0, 0, 0>>]
        ELSE [raised |-> TRUE, value |-> "ValueError"]

\* main.py:40-44
PeriodStart(period) ==
    LET i == PeriodRangeSearch(period)
    IN  IF i = 0
        THEN [raised |-> FALSE, value |-> DatetimeMax]
        ELSE Strptime(SubSeq(period, i, i + 9))

RECURSIVE TupleLess(_, _)
TupleLess(a, b) ==
    /\ a # <<>> /\ b # <<>>
    /\ \/ Head(a) < Head(b)
       \/ Head(a) = Head(b) /\ TupleLess(Tail(a), Tail(b))

DatetimeLessDayFirst(a, b) ==
    TupleLess(<<a[3], a[2], a[1]>>, <<b[3], b[2], b[1]>>)

\* datetime.__lt__, the order main.py:155 sorts by
DatetimeLess(a, b) == TupleLess(a, b)

\* str.strip()
RECURSIVE Strip(_)
Strip(s) ==
    IF s = "" THEN s
    ELSE IF Char(s, 1) \in Whitespace THEN Strip(SubSeq(s, 2, Len(s)))
    ELSE IF Char(s, Len(s)) \in Whitespace THEN Strip(SubSeq(s, 1, Len(s) - 1))
    ELSE s

-----------------------------------------------------------------------------
(* The PDFs users upload.  A stored file holds the name of its PDF.          *)

MaxUploads == 3
MaxCommitIds == 1
MaxTicks == 1

\* one table row: the row's line and the wrapped letter of its bank code
RowWords(pay, iin, y) ==
    << W(pay, 50, y), W(iin, 100, y), W("HSBKKZK", 330, y),
       W("1,234.56", 528, y), W("X", 330, y + 10) >>

PdfNames == {"jan", "feb", "dec", "jan2", "none", "bad"}

Pdf(name) ==
    CASE name = "jan" ->
           [meta |-> [region |-> "Almaty", report_date |-> "05.02.2023 10:00:00",
                      period |-> "01.01.2023 - 31.01.2023"],
            pages |-> << RowWords("226*", "123456789012", 100) >>]
      [] name = "feb" ->
           [meta |-> [region |-> "Almaty", report_date |-> "05.03.2023 10:00:00",
                      period |-> "01.02.2023 - 28.02.2023"],
            pages |-> << RowWords("301", "987654321098", 100) >>]
      [] name = "dec" ->    \* the same row rendered on both pages
           [meta |-> [region |-> "Almaty", report_date |-> "05.01.2023 10:00:00",
                      period |-> "01.12.2022 - 31.12.2022"],
            pages |-> << RowWords("115", "123456789012", 100),
                         RowWords("115", "123456789012", 100) >>]
      [] name = "jan2" ->   \* January again; two rows alike but for pay_no
           [meta |-> [region |-> "Astana", report_date |-> "06.02.2023 09:30:00",
                      period |-> "01.01.2023 - 31.01.2023"],
            pages |-> << RowWords("226*", "123456789012", 100)
                         \o RowWords("227*", "123456789012", 140) >>]
      [] name = "none" ->   \* no period label in the text
           [meta |-> [region |-> "Almaty", report_date |-> "", period |-> ""],
            pages |-> << RowWords("226*", "123456789012", 100) >>]
      [] name = "bad" ->    \* a period whose start is no calendar date
           [meta |-> [region |-> "Almaty", report_date |-> "05.03.2023 10:00:00",
                      period |-> "31.02.2023 - 28.02.2023"],
            pages |-> << RowWords("301", "987654321098", 100) >>]

\* main.py:140  parse_report_pdf(f["path"]) for a file holding PDF name
ParsedPdf(name) == ParseReportPdf(Pdf(name))

-----------------------------------------------------------------------------
(* Parser inputs: the words a page can hold.  The pool has every kind of    *)
(* word the table holds, on the anchor's line, inside its 2.5 tolerance, in *)
(* the continuation region, and on the edges of the column ranges.          *)

MaxWords == 3
MaxPages == 2

WordPool ==
    { W("123456789012", 100, 100),   \* an anchor
      W("987654321098", 100, 102),   \* another, rendered 2 units lower
      W("123456789012", 100, 120),   \* the first row rendered again
      W("226*",          50, 100),   \* payment number with its mark
      W("HSBKKZK",      320, 100),   \* 7-character bank code base
      W("KCJBKZKX",     385, 100),   \* 8-character bank code
      W("X",            330, 110),   \* wrapped last letter of the bank code
      W("B",            386, 110),   \* a letter right of the bank column
      W("KZ12345",      385, 100),   \* account prefix on the column edge
      W("KZ12345",      400, 101),   \* account prefix, 1 unit lower
      W("A2910013",     400, 110),   \* wrapped rest of the account number
      W("123456",       442, 100),   \* budget code
      W("1,234.56",     528, 100) }  \* amount

RECURSIVE SeqsUpTo(_, _)
SeqsUpTo(S, n) ==
    IF n = 0 THEN {<<>>}
    ELSE LET shorter == SeqsUpTo(S, n - 1)
         IN  shorter \cup {Append(s, x) : s \in shorter, x \in S}

\* ws cut into pages after the positions in cuts
Paginate(ws, cuts) ==
    LET marks  == StableSort(SelectSeq(Indices(ws), LAMBDA i : i \in cuts),
                             LAMBDA i, j : i < j)
        from(k) == IF k = 1 THEN 1 ELSE marks[k - 1] + 1
        to(k)   == IF k = Len(marks) + 1 THEN Len(ws) ELSE marks[k]
    IN  [k \in 1..(Len(marks) + 1) |-> SubSeq(ws, from(k), to(k))]

NoMeta == [region |-> "", report_date |-> "", period |-> ""]

PdfInputs ==
    { [meta |-> NoMeta, pages |-> Paginate(ws, cuts)] :
        ws \in SeqsUpTo(WordPool, MaxWords),
        cuts \in {c \in SUBSET (1..(MaxWords - 1)) : Cardinality(c) < MaxPages} }

NotParsed == [done |-> FALSE]

NoPdf == [meta |-> NoMeta, pages |-> <<>>]

NoResponse == [kind |-> "none"]

\* worker threads serving the sync handlers (def routes run in a thread pool)
MaxWorkers == 2
Workers == 1..MaxWorkers

\* storage.py:150-152  a worker running no commit_uploads
IdleCommit ==
    [pc |-> "idle", ids |-> <<>>, k |-> 0, moved |-> 0, missing |-> <<>>,
     pending |-> {}]

\* storage.py:80-82  no cleanup_expired_files running
IdleCleanup == [running |-> FALSE, todo |-> {}, t |-> 0]

\* storage.py:39  no save_temp_pdf running; next is the next fresh upload id
IdleSave(next) == [pc |-> "idle", id |-> 0, size_mb |-> 0, next |-> next]

\* no call of storage.py in progress
NoCalls ==
    /\ commit = [w \in Workers |-> IdleCommit]
    /\ cleanup = IdleCleanup
    /\ save = IdleSave(1)
    /\ unlinked = {}

appVars == <<uploads, tmp_files, perm_files, now, response>>
parserVars == <<pdf, parsed, parse_trace>>
callVars == <<commit, cleanup, save, unlinked>>

ParserInit ==
    /\ pdf \in PdfInputs
    /\ parsed = NotParsed
    /\ parse_trace = <<>>
    /\ uploads = <<>>
    /\ tmp_files = {}
    /\ perm_files = {}
    /\ now = 0
    /\ response = NoResponse
    /\ NoCalls

\* parser.py:140-157  parse_report_pdf(pdf)
ParseReportPdfCall ==
    /\ ~parsed.done
    /\ parsed' = [done |-> TRUE, doc |-> ParseReportPdf(pdf)]
    /\ parse_trace' = [p \in 1..Len(pdf.pages) |-> ParsePageTrace(pdf.pages[p])]
    /\ UNCHANGED <<pdf, appVars, callVars>>

ParserNext == ParseReportPdfCall

SpecParser == ParserInit /\ [][ParserNext]_vars

-----------------------------------------------------------------------------
(* storage.py.  An uploads row is [id, stored_path, created_at,             *)
(* is_committed]; a path is <<directory, id>> for <directory>/<id>.pdf; a   *)
(* file is [content, mtime].  tmp_files and perm_files map the ids of the   *)
(* files present in TMP_DIR and PERM_DIR to the file.                       *)

\* config.py:8
TMP_TTL_SECONDS == 60 * 60

\* config.py:9
MAX_UPLOAD_MB == 50

TMP_DIR == "tmp"
PERM_DIR == "perm"

Restrict(f, S) == [x \in S |-> f[x]]

\* storage.py:18-22  (names are given in lower case)
SafeExt(name) ==
    LET n == Strip(name)
    IN  IF Len(n) >= 4 /\ SubSeq(n, Len(n) - 3, Len(n)) = ".pdf"
        THEN ".pdf" ELSE ""

\* storage.py:76-93  the files left in TMP_DIR by cleanup_expired_files
CleanupExpiredFiles(files, t) ==
    Restrict(files, {id \in DOMAIN files : ~(t - files[id].mtime > TMP_TTL_SECONDS)})

\* storage.py:135-139
FileExists(path, tmp, perm) ==
    \/ path[1] = TMP_DIR /\ path[2] \in DOMAIN tmp
    \/ path[1] = PERM_DIR /\ path[2] \in DOMAIN perm

\* the file at path
FileAt(path, tmp, perm) ==
    IF path[1] = TMP_DIR THEN tmp[path[2]] ELSE perm[path[2]]

\* storage.py:106-132  committed rows, newest first
ListUploads(rows, limit) ==
    LET committed(r) == r.is_committed = 1
        newerFirst(a, b) == a.created_at > b.created_at
        sorted == StableSort(SelectSeq(rows, committed), newerFirst)
    IN  SubSeq(sorted, 1, IF Len(sorted) < limit THEN Len(sorted) ELSE limit)

\* storage.py:24-74  save_temp_pdf; f is [filename, content_type, size_mb,
\* content].  st is [uploads, tmp, perm, response]
SaveTempPdf(f, st, t) ==
    IF f.filename = ""
    THEN [st EXCEPT !.response = [kind |-> "http_error", status |-> 400]]
    ELSE IF SafeExt(f.filename) # ".pdf"
    THEN [st EXCEPT !.response = [kind |-> "http_error", status |-> 400]]
    ELSE IF f.content_type \notin {"", "application/pdf", "application/octet-stream"}
    THEN [st EXCEPT !.response = [kind |-> "http_error", status |-> 400]]
    ELSE IF f.size_mb > MAX_UPLOAD_MB
    THEN [st EXCEPT !.response = [kind |-> "http_error", status |-> 413]]
    ELSE LET upload_id == Len(st.uploads) + 1
         IN  [uploads |-> Append(st.uploads,
                                 [id |-> upload_id,
                                  stored_path |-> <<TMP_DIR, upload_id>>,
                                  created_at |-> upload_id,
                                  is_committed |-> 0]),
              tmp |-> [id \in DOMAIN st.tmp \cup {upload_id} |->
                          IF id = upload_id
                          THEN [content |-> f.content, mtime |-> t]
                          ELSE st.tmp[id]],
              perm |-> st.perm,
              response |-> [kind |-> "upload", id |-> upload_id]]

\* storage.py:155-186  one pass of the loop of commit_uploads; acc is
\* [uploads, tmp, perm, moved, missing]
CommitOne(upload_id, acc) ==
    IF upload_id \notin DOMAIN acc.uploads
    THEN [acc EXCEPT !.missing = Append(@, upload_id)]
    ELSE LET row == acc.uploads[upload_id]
         IN  IF row.is_committed = 1 THEN acc
             ELSE IF ~FileExists(row.stored_path, acc.tmp, acc.perm)
             THEN [acc EXCEPT !.missing = Append(@, upload_id)]
             ELSE [uploads |-> [acc.uploads EXCEPT
                                   ![upload_id].stored_path = <<PERM_DIR, upload_id>>,
                                   ![upload_id].is_committed = 1],
                   tmp |-> Restrict(acc.tmp, DOMAIN acc.tmp \ {row.stored_path[2]}),
                   perm |-> [id \in DOMAIN acc.perm \cup {upload_id} |->
                                IF id = upload_id
                                THEN FileAt(row.stored_path, acc.tmp, acc.perm)
                                ELSE acc.perm[id]],
                   moved |-> acc.moved + 1,
                   missing |-> acc.missing]

\* storage.py:144-190
RECURSIVE CommitUploads(_, _)
CommitUploads(ids, acc) ==
    IF ids = <<>> THEN acc
    ELSE With(CommitOne(Head(ids), acc), LAMBDA next :
            CommitUploads(Tail(ids), next))

-----------------------------------------------------------------------------
(* main.py: page_report, the /report aggregation                             *)

\* main.py:140-152  the entry of parsed_files for upload row f
ParsedFile(f, tmp, perm) ==
    With(ParsedPdf(FileAt(f.stored_path, tmp, perm).content), LAMBDA doc :
        With(Strip(doc.period), LAMBDA period :
            [period       |-> period,
             period_start |-> PeriodStart(period),
             region       |-> Strip(doc.region),
             report_date  |-> Strip(doc.report_date),
             rows         |-> doc.rows,
             id           |-> f.id]))

\* main.py:135-152  files without their file are skipped
ParsedFiles(files, tmp, perm) ==
    LET available(f) == FileExists(f.stored_path, tmp, perm)
    IN  With(SelectSeq(files, available), LAMBDA kept :
            [k \in 1..Len(kept) |-> ParsedFile(kept[k], tmp, perm)])

SortParsedFilesNot(parsed_files) == parsed_files

\* main.py:155  parsed_files.sort(key=lambda x: x["period_start"])
SortParsedFiles(parsed_files) ==
    LET before(a, b) == DatetimeLess(a.period_start.value, b.period_start.value)
    IN  StableSort(parsed_files, before)

ReportKeyNoPayNo(pf, r) ==
    <<pf.period, pf.region, pf.report_date,
      r.iin_bin, r.bank_code, r.iik, r.kbk, r.amount_in>>

\* main.py:169-179
ReportKey(pf, r) ==
    <<pf.period, pf.region, pf.report_date,
      r.pay_no, r.iin_bin, r.bank_code, r.iik, r.kbk, r.amount_in>>

PeriodRowsUnlessEmpty(pf) ==
    IF pf.rows = <<>> \/ pf.period = "" THEN <<>>
    ELSE <<[type |-> "period", period |-> pf.period]>>

\* main.py:165
PeriodRows(pf) == <<[type |-> "period", period |-> pf.period]>>

\* main.py:184-191
DataRow(r) ==
    [type |-> "data", iin_bin |-> r.iin_bin, bank_code |-> r.bank_code,
     iik |-> r.iik, kbk |-> r.kbk, amount_in |-> r.amount_in]

\* main.py:168-191  one row r (row j) of pf; acc is [table_rows, seen,
\* origin], origin naming for every line the upload and the row (0: the
\* period line) it was made from
EmitRow(pf, j, acc) ==
    LET r   == pf.rows[j]
        key == ReportKey(pf, r)
    IN  IF key \in acc.seen
        THEN acc
        ELSE [table_rows |-> Append(acc.table_rows, DataRow(r)),
              seen       |-> acc.seen \cup {key},
              origin     |-> Append(acc.origin, [id |-> pf.id, row |-> j])]

\* main.py:168-191  the rows of pf from row j on
RECURSIVE EmitRows(_, _, _)
EmitRows(pf, j, acc) ==
    IF j > Len(pf.rows) THEN acc
    ELSE With(EmitRow(pf, j, acc), LAMBDA next : EmitRows(pf, j + 1, next))

\* main.py:162-191  one file: its period line, then its rows
EmitFile(pf, acc) ==
    With(PeriodRows(pf), LAMBDA heads :
        With([table_rows |-> acc.table_rows \o heads,
              seen       |-> acc.seen,
              origin     |-> acc.origin \o
                             [k \in 1..Len(heads) |-> [id |-> pf.id, row |-> 0]]],
             LAMBDA start : EmitRows(pf, 1, start)))

\* main.py:161-191
RECURSIVE EmitFiles(_, _, _)
EmitFiles(parsed_files, k, acc) ==
    IF k > Len(parsed_files) THEN acc
    ELSE With(EmitFile(parsed_files[k], acc), LAMBDA next :
            EmitFiles(parsed_files, k + 1, next))

\* main.py:131-197  page_report over files = list_uploads(limit=500); an
\* exception raised by _period_start ends the request
PageReportResponse(files, tmp, perm) ==
    With(ParsedFiles(files, tmp, perm), LAMBDA parsed_files :
        IF \E k \in 1..Len(parsed_files) : parsed_files[k].period_start.raised
        THEN [kind |-> "exception", error |-> "ValueError"]
        ELSE With(SortParsedFiles(parsed_files), LAMBDA sorted :
             With(EmitFiles(sorted, 1,
                            [table_rows |-> <<>>, seen |-> {}, origin |-> <<>>]),
                  LAMBDA out :
                    [kind        |-> "report",
                     rows        |-> out.table_rows,
                     files_count |-> Len(parsed_files),
                     origin      |-> out.origin])))

-----------------------------------------------------------------------------
(* The handlers of main.py                                                   *)

UploadInputs ==
    { [filename |-> "report.pdf", content_type |-> "application/pdf",
       size_mb |-> 1, content |-> c] : c \in PdfNames }
    \cup
    { [filename |-> "", content_type |-> "application/pdf", size_mb |-> 1,
       content |-> "jan"],
      [filename |-> "notes.txt", content_type |-> "application/pdf", size_mb |-> 1,
       content |-> "jan"],
      [filename |-> "report.pdf", content_type |-> "text/plain", size_mb |-> 1,
       content |-> "jan"],
      [filename |-> "report.pdf", content_type |-> "application/pdf",
       size_mb |-> MAX_UPLOAD_MB + 1, content |-> "jan"] }

Init ==
    /\ uploads = <<>>
    /\ tmp_files = <<>>
    /\ perm_files = <<>>
    /\ now = 0
    /\ response = NoResponse
    /\ pdf = NoPdf
    /\ parsed = NotParsed
    /\ parse_trace = <<>>
    /\ NoCalls

\* main.py:84-88  POST /api/upload
ApiUpload(f) ==
    \E st \in {SaveTempPdf(f, [uploads  |-> uploads,
                               tmp      |-> CleanupExpiredFiles(tmp_files, now),
                               perm     |-> perm_files,
                               response |-> response], now)} :
        /\ Len(st.uploads) <= MaxUploads
        /\ uploads' = st.uploads
        /\ tmp_files' = st.tmp
        /\ perm_files' = st.perm
        /\ response' = st.response
        /\ UNCHANGED <<now, parserVars, callVars>>

\* main.py:58-64  GET /history
PageHistory ==
    LET tmp   == CleanupExpiredFiles(tmp_files, now)
        items == ListUploads(uploads, 200)
    IN  /\ tmp_files' = tmp
        /\ response' = [kind  |-> "history",
                        items |-> [k \in 1..Len(items) |->
                                      [id |-> items[k].id,
                                       available |-> FileExists(items[k].stored_path,
                                                                tmp, perm_files)]]]
        /\ UNCHANGED <<uploads, perm_files, now, parserVars, callVars>>

\* main.py:125-128  POST /api/commit
ApiCommit(ids) ==
    \E result \in {CommitUploads(ids, [uploads |-> uploads, tmp |-> tmp_files,
                                       perm |-> perm_files, moved |-> 0,
                                       missing |-> <<>>])} :
        /\ uploads' = result.uploads
        /\ tmp_files' = result.tmp
        /\ perm_files' = result.perm
        /\ response' = [kind |-> "commit", moved |-> result.moved,
                        missing |-> result.missing]
        /\ UNCHANGED <<now, parserVars, callVars>>

\* main.py:131-197  GET /report
PageReport ==
    /\ response' = PageReportResponse(ListUploads(uploads, 500), tmp_files, perm_files)
    /\ UNCHANGED <<uploads, tmp_files, perm_files, now, parserVars, callVars>>

\* time passes: a file saved before the tick is older than the TTL after it
Tick ==
    /\ now < MaxTicks * (TMP_TTL_SECONDS + 1)
    /\ now' = now + TMP_TTL_SECONDS + 1
    /\ UNCHANGED <<uploads, tmp_files, perm_files, response, parserVars, callVars>>

Next ==
    \/ \E f \in UploadInputs : ApiUpload(f)
    \/ PageHistory
    \/ \E ids \in SeqsUpTo(0..Len(uploads), MaxCommitIds) : ApiCommit(ids)
    \/ PageReport
    \/ Tick

Spec == Init /\ [][Next]_vars

-----------------------------------------------------------------------------
(* storage.py step by step.  api_upload runs on the event loop and the def  *)
(* routes (api_commit, page_history) on worker threads, so the calls of      *)
(* save_temp_pdf, cleanup_expired_files and commit_uploads interleave at     *)
(* every file-system call and every SQL statement.  A connection sees the   *)
(* committed table and its own pending UPDATEs; the UPDATEs of a commit     *)
(* reach the table at conn.commit() (storage.py:188).                       *)

MaxSaves == 2
MaxBatch == 1

\* the uploads a client can send; the content of the PDF plays no part here
StorageInputs == {f \in UploadInputs : f.content = "jan"}

\* storage.py:156-160  cur.fetchone() is a row
HasRow(rows, upload_id) == \E k \in DOMAIN rows : rows[k].id = upload_id

\* storage.py:156-160  the row of upload_id
RowOf(rows, upload_id) ==
    rows[CHOOSE k \in DOMAIN rows : rows[k].id = upload_id]

\* storage.py:174-185  the row after UPDATE ... SET stored_path=?, is_committed=1
CommittedRow(row) ==
    [row EXCEPT !.stored_path = <<PERM_DIR, row.id>>, !.is_committed = 1]

\* storage.py:154-188  the table as the connection that has UPDATEd the rows
\* of pending sees it, and as it is after that connection's conn.commit()
TxnView(rows, pending) ==
    [k \in DOMAIN rows |->
        IF rows[k].id \in pending THEN CommittedRow(rows[k]) ELSE rows[k]]

\* storage.py:182  another connection holds the write lock of the database
WriteLocked(w) == \E v \in Workers \ {w} : commit[v].pending # {}

\* the *.pdf paths of both directories
GlobAll(tmp, perm) ==
    {<<TMP_DIR, id>> : id \in DOMAIN tmp} \cup {<<PERM_DIR, id>> : id \in DOMAIN perm}

\* storage.py:84  TMP_DIR.glob("*.pdf"): the paths cleanup_expired_files visits
Glob(tmp, perm) == {<<TMP_DIR, id>> : id \in DOMAIN tmp}

\* storage.py:55, 88  the files of directory dir after unlink(path)
Unlink(path, dir, files) ==
    IF path[1] = dir THEN Restrict(files, DOMAIN files \ {path[2]}) ELSE files

\* storage.py:47, 176  the files of a directory after id's file is written
PutFile(files, id, file) ==
    [x \in DOMAIN files \cup {id} |-> IF x = id THEN file ELSE files[x]]

\* storage.py:162, 171, 179  missing.append(upload_id); continue
SkipMissing(c) ==
    [c EXCEPT !.pc = "select", !.k = @ + 1, !.missing = Append(@, c.ids[c.k])]

\* storage.py:25-47  save_temp_pdf up to the creation of the file
SaveOpen(f) ==
    /\ save.pc = "idle"
    /\ save.next <= MaxSaves
    /\ IF \/ f.filename = ""
          \/ SafeExt(f.filename) # ".pdf"
          \/ f.content_type \notin {"", "application/pdf", "application/octet-stream"}
       THEN /\ response' = [kind |-> "http_error", status |-> 400]
            /\ UNCHANGED <<tmp_files, save>>
       ELSE /\ tmp_files' = PutFile(tmp_files, save.next,
                                    [content |-> f.content, mtime |-> now])
            /\ save' = [pc |-> "read", id |-> save.next, size_mb |-> f.size_mb,
                        next |-> save.next + 1]
            /\ UNCHANGED response
    /\ UNCHANGED <<uploads, perm_files, now, parserVars, commit, cleanup, unlinked>>

\* storage.py:48-59  the chunks are read and written, or the file is too large
SaveRead ==
    /\ save.pc = "read"
    /\ IF save.size_mb > MAX_UPLOAD_MB
       THEN /\ tmp_files' = Unlink(<<TMP_DIR, save.id>>, TMP_DIR, tmp_files)
            /\ response' = [kind |-> "http_error", status |-> 413]
            /\ save' = IdleSave(save.next)
       ELSE /\ tmp_files' = IF save.id \in DOMAIN tmp_files
                            THEN [tmp_files EXCEPT ![save.id].mtime = now]
                            ELSE tmp_files
            /\ save' = [save EXCEPT !.pc = "insert"]
            /\ UNCHANGED response
    /\ UNCHANGED <<uploads, perm_files, now, parserVars, commit, cleanup, unlinked>>

\* storage.py:61-74  INSERT, conn.commit() and the answer
SaveInsert ==
    /\ save.pc = "insert"
    /\ ~WriteLocked(0)
    /\ uploads' = Append(uploads, [id |-> save.id,
                                   stored_path |-> <<TMP_DIR, save.id>>,
                                   created_at |-> save.id,
                                   is_committed |-> 0])
    /\ response' = [kind |-> "upload", id |-> save.id]
    /\ save' = IdleSave(save.next)
    /\ UNCHANGED <<tmp_files, perm_files, now, parserVars, commit, cleanup, unlinked>>

\* storage.py:63-68  INSERT while a commit_uploads holds the write lock:
\* sqlite3 waits (SaveInsert, later) or raises "database is locked"
SaveInsertLocked ==
    /\ save.pc = "insert"
    /\ WriteLocked(0)
    /\ response' = [kind |-> "exception", error |-> "OperationalError"]
    /\ save' = IdleSave(save.next)
    /\ UNCHANGED <<uploads, tmp_files, perm_files, now, parserVars, commit,
                   cleanup, unlinked>>

\* storage.py:80-84  now is read and TMP_DIR is listed
CleanupStart ==
    /\ ~cleanup.running
    /\ cleanup' = [running |-> TRUE, todo |-> Glob(tmp_files, perm_files), t |-> now]
    /\ UNCHANGED <<appVars, parserVars, commit, save, unlinked>>

\* storage.py:85-91  one pass of the loop: stat raises for a file that is
\* gone, a file older than the TTL is unlinked
CleanupFile(p) ==
    /\ cleanup.running
    /\ p \in cleanup.todo
    /\ cleanup' = [cleanup EXCEPT !.todo = @ \ {p}]
    /\ IF /\ FileExists(p, tmp_files, perm_files)
          /\ cleanup.t - FileAt(p, tmp_files, perm_files).mtime > TMP_TTL_SECONDS
       THEN /\ tmp_files' = Unlink(p, TMP_DIR, tmp_files)
            /\ perm_files' = Unlink(p, PERM_DIR, perm_files)
            /\ unlinked' = unlinked \cup {p[2]}
       ELSE UNCHANGED <<tmp_files, perm_files, unlinked>>
    /\ UNCHANGED <<uploads, now, response, parserVars, commit, save>>

\* storage.py:93  return removed
CleanupReturn ==
    /\ cleanup.running
    /\ cleanup.todo = {}
    /\ cleanup' = IdleCleanup
    /\ UNCHANGED <<appVars, parserVars, commit, save, unlinked>>

\* storage.py:144-154  commit_uploads(ids) is entered by worker w
CommitStart(w, ids) ==
    /\ commit[w].pc = "idle"
    /\ commit' = [commit EXCEPT ![w] =
                     [pc |-> "select", ids |-> ids, k |-> 1, moved |-> 0,
                      missing |-> <<>>, pending |-> {}]]
    /\ UNCHANGED <<appVars, parserVars, cleanup, save, unlinked>>

\* storage.py:155-167  SELECT of the next id: no row, committed, or to move
CommitSelect(w) ==
    LET c    == commit[w]
        view == TxnView(uploads, c.pending)
    IN  /\ c.pc = "select"
        /\ c.k <= Len(c.ids)
        /\ commit' = [commit EXCEPT ![w] =
                         IF ~HasRow(view, c.ids[c.k]) THEN SkipMissing(c)
                         ELSE IF RowOf(view, c.ids[c.k]).is_committed = 1
                         THEN [c EXCEPT !.k = @ + 1]
                         ELSE [c EXCEPT !.pc = "is_file"]]
        /\ UNCHANGED <<appVars, parserVars, cleanup, save, unlinked>>

\* storage.py:169-172  old_p.is_file(); the row read was uncommitted, so
\* old_path is the path save_temp_pdf stored
CommitIsFile(w) ==
    LET c == commit[w]
    IN  /\ c.pc = "is_file"
        /\ commit' = [commit EXCEPT ![w] =
                         IF FileExists(<<TMP_DIR, c.ids[c.k]>>, tmp_files, perm_files)
                         THEN [c EXCEPT !.pc = "move"]
                         ELSE SkipMissing(c)]
        /\ UNCHANGED <<appVars, parserVars, cleanup, save, unlinked>>

\* storage.py:174-180  shutil.move; it raises when the file is gone
CommitMove(w) ==
    LET c  == commit[w]
        id == c.ids[c.k]
    IN  /\ c.pc = "move"
        /\ IF FileExists(<<TMP_DIR, id>>, tmp_files, perm_files)
           THEN /\ perm_files' = PutFile(perm_files, id, tmp_files[id])
                /\ tmp_files' = Unlink(<<TMP_DIR, id>>, TMP_DIR, tmp_files)
                /\ commit' = [commit EXCEPT ![w].pc = "update"]
           ELSE /\ commit' = [commit EXCEPT ![w] = SkipMissing(c)]
                /\ UNCHANGED <<tmp_files, perm_files>>
        /\ UNCHANGED <<uploads, now, response, parserVars, cleanup, save, unlinked>>

\* storage.py:182-186  UPDATE inside the connection's transaction
CommitUpdate(w) ==
    LET c == commit[w]
    IN  /\ c.pc = "update"
        /\ ~WriteLocked(w)
        /\ commit' = [commit EXCEPT ![w] =
                         [c EXCEPT !.pc = "select", !.k = @ + 1, !.moved = @ + 1,
                                   !.pending = @ \cup {c.ids[c.k]}]]
        /\ UNCHANGED <<appVars, parserVars, cleanup, save, unlinked>>

\* storage.py:182-186  UPDATE while another connection holds the write lock:
\* sqlite3 waits (CommitUpdate, later) or raises "database is locked"; the
\* connection is closed without conn.commit() (db.py:31-34)
CommitUpdateLocked(w) ==
    /\ commit[w].pc = "update"
    /\ WriteLocked(w)
    /\ commit' = [commit EXCEPT ![w] = IdleCommit]
    /\ response' = [kind |-> "exception", error |-> "OperationalError"]
    /\ UNCHANGED <<uploads, tmp_files, perm_files, now, parserVars, cleanup,
                   save, unlinked>>

\* storage.py:188-190  conn.commit() and the answer
CommitReturn(w) ==
    LET c == commit[w]
    IN  /\ c.pc = "select"
        /\ c.k > Len(c.ids)
        /\ uploads' = TxnView(uploads, c.pending)
        /\ response' = [kind |-> "commit", moved |-> c.moved,
                        missing |-> c.missing]
        /\ commit' = [commit EXCEPT ![w] = IdleCommit]
        /\ UNCHANGED <<tmp_files, perm_files, now, parserVars, cleanup, save,
                       unlinked>>

StorageNext ==
    \/ \E f \in StorageInputs : SaveOpen(f)
    \/ SaveRead
    \/ SaveInsert
    \/ SaveInsertLocked
    \/ CleanupStart
    \/ \E p \in cleanup.todo : CleanupFile(p)
    \/ CleanupReturn
    \/ \E w \in Workers, ids \in SeqsUpTo(1..MaxSaves, MaxBatch) : CommitStart(w, ids)
    \/ \E w \in Workers : CommitSelect(w)
    \/ \E w \in Workers : CommitIsFile(w)
    \/ \E w \in Workers : CommitMove(w)
    \/ \E w \in Workers : CommitUpdate(w)
    \/ \E w \in Workers : CommitUpdateLocked(w)
    \/ \E w \in Workers : CommitReturn(w)
    \/ Tick

SpecStorage == Init /\ [][StorageNext]_vars

-----------------------------------------------------------------------------
(* Properties of the parser                                                  *)

\* the rows of the parsed PDF with the page each came from
TracedRows ==
    UNION {{<<p, k>> : k \in DOMAIN parse_trace[p]} : p \in DOMAIN parse_trace}

RowAt(pk) == parse_trace[pk[1]][pk[2]]
WordsAt(pk) == pdf.pages[pk[1]]

\* the words of the row's core band
CoreBand(pk) ==
    {i \in DOMAIN WordsAt(pk) : InLine(WordsAt(pk)[i], RowAt(pk).top)}

\* the words of the row's continuation region
ContinuationRegion(pk) ==
    {i \in DOMAIN WordsAt(pk) :
        /\ RowAt(pk).top < WordsAt(pk)[i].top
        /\ WordsAt(pk)[i].top < RowAt(pk).next_top}

\* C2: no two Records of a parsed Document share the six-field tuple
\* (payment-no, id-number, bank-code, account-number, budget-code, amount),
\* also when the same row is rendered on two pages.
C2_NoDuplicateRecords ==
    parsed.done =>
        \A i, j \in DOMAIN parsed.doc.rows :
            i # j => RowKey(parsed.doc.rows[i]) # RowKey(parsed.doc.rows[j])

\* the single uppercase letters in the bank-code band of the continuation
\* region
SuffixCandidates(pk) ==
    {i \in ContinuationRegion(pk) :
        /\ 320 <= WordsAt(pk)[i].x0 /\ WordsAt(pk)[i].x0 <= 385
        /\ Len(WordsAt(pk)[i].text) = 1
        /\ WordsAt(pk)[i].text \in Upper}

\* i comes first in the order (top, x0), the page's word order deciding ties
FirstOf(pk, i, S) ==
    \A j \in S \ {i} :
        LET a == WordsAt(pk)[i]
            b == WordsAt(pk)[j]
        IN  \/ a.top < b.top
            \/ a.top = b.top /\ a.x0 < b.x0
            \/ a.top = b.top /\ a.x0 = b.x0 /\ i < j

\* C7: the first single-uppercase-letter word in the bank-code band of the
\* continuation region is appended to the bank-code base iff the base has
\* exactly 7 characters, giving the 8 characters base+suffix; with an empty
\* or 8-character base the bank code is the base.
C7_BankSuffixMerge ==
    parsed.done =>
        \A pk \in TracedRows :
            LET base == TextOf(WordsAt(pk), RowAt(pk).src.bank_base)
                cand == SuffixCandidates(pk)
                code == RowAt(pk).rec.bank_code
            IN  /\ Len(base) \in {0, 7, 8}
                /\ (Len(base) = 7 /\ cand # {}) =>
                       /\ Len(code) = 8
                       /\ \E i \in cand :
                            /\ FirstOf(pk, i, cand)
                            /\ code = base \o WordsAt(pk)[i].text
                /\ (Len(base) # 7 \/ cand = {}) => code = base

C7_Witness ==
    /\ parsed.done
    /\ \E pk \in TracedRows :
          /\ Len(TextOf(WordsAt(pk), RowAt(pk).src.bank_base)) = 7
          /\ SuffixCandidates(pk) # {}
          /\ RowAt(pk).rec.bank_code = "HSBKKZKX"

\* C8: no word of a row's core band is assigned to two of the column-bound
\* fields (bank-code base, account-number prefix, budget-code, amount) of the
\* same Record.
C8_OneFieldPerWord ==
    parsed.done =>
        \A pk \in TracedRows :
            LET src == RowAt(pk).src
                f == <<src.bank_base, src.iik_prefix, src.kbk, src.amount>>
            IN  \A a, b \in 1..4 : (a # b /\ f[a] # 0) => f[a] # f[b]

\* the (row, role) pairs in which word i of page p is read
UsesOf(p, i) ==
    {<<pk, "core">> : pk \in {q \in TracedRows :
        /\ q[1] = p
        /\ i \in {RowAt(q).src.pay_no, RowAt(q).src.bank_base,
                  RowAt(q).src.iik_prefix, RowAt(q).src.kbk,
                  RowAt(q).src.amount}}}
    \cup
    {<<pk, "continuation">> : pk \in {q \in TracedRows :
        /\ q[1] = p
        /\ \/ i = RowAt(q).src.suffix
           \/ \E k \in DOMAIN RowAt(q).src.cont : RowAt(q).src.cont[k] = i}}

\* C9: every non-anchor word is read for at most one row and in one role:
\* never both as a core-band field of one Record and as a continuation
\* fragment of the same or another Record, nor for two rows.
C9_OneRowOneRole ==
    parsed.done =>
        \A p \in DOMAIN pdf.pages :
            \A i \in DOMAIN pdf.pages[p] :
                ~IsIin(pdf.pages[p][i].text) => Cardinality(UsesOf(p, i)) <= 1

\* the core-band words of the shape digits, optionally followed by '*'
PayNoCandidates(pk) == {i \in CoreBand(pk) : IsPayNo(WordsAt(pk)[i].text)}

\* the payment number is non-empty and is the text of a leftmost candidate
PayNoIsLeftmost(pk) ==
    /\ RowAt(pk).rec.pay_no # ""
    /\ \E i \in PayNoCandidates(pk) :
          /\ RowAt(pk).rec.pay_no = WordsAt(pk)[i].text
          /\ \A j \in PayNoCandidates(pk) :
                WordsAt(pk)[i].x0 <= WordsAt(pk)[j].x0

\* C10 as claimed: every Record has a non-empty payment number, the text of
\* the leftmost core-band word of the shape digits['*'], and it equals the
\* record's id number whenever no such word lies to the left of the anchor.
C10_PayNoAsClaimed ==
    parsed.done =>
        \A pk \in TracedRows :
            /\ PayNoIsLeftmost(pk)
            /\ (\A j \in PayNoCandidates(pk) :
                    WordsAt(pk)[j].x0 >= WordsAt(pk)[RowAt(pk).src.anchor].x0)
               => RowAt(pk).rec.pay_no = RowAt(pk).rec.iin_bin

\* C10 (amended): every Record has a non-empty payment number, the text of a
\* leftmost core-band word of the shape digits['*']; it equals the record's
\* id number whenever every other such word lies to the right of the anchor,
\* or at the anchor's x0 and later in the page's word order.
C10_PayNo ==
    parsed.done =>
        \A pk \in TracedRows :
            LET a == RowAt(pk).src.anchor
            IN  /\ PayNoIsLeftmost(pk)
                /\ (\A j \in PayNoCandidates(pk) \ {a} :
                        \/ WordsAt(pk)[j].x0 > WordsAt(pk)[a].x0
                        \/ WordsAt(pk)[j].x0 = WordsAt(pk)[a].x0 /\ j > a)
                   => RowAt(pk).rec.pay_no = RowAt(pk).rec.iin_bin

C10_Witness ==
    /\ parsed.done
    /\ \E pk \in TracedRows :
          /\ Cardinality(PayNoCandidates(pk)) >= 2
          /\ \A j \in PayNoCandidates(pk) \ {RowAt(pk).src.anchor} :
                WordsAt(pk)[j].x0 > WordsAt(pk)[RowAt(pk).src.anchor].x0
          /\ RowAt(pk).rec.pay_no = RowAt(pk).rec.iin_bin

-----------------------------------------------------------------------------
(* Properties of the aggregated report.  While response holds a report, the *)
(* uploads and the files are those the report was made from: every handler  *)
(* that changes them replaces the response.                                  *)

IsReport == response.kind = "report"

\* the positions of the period-header lines
HeaderLines == {i \in DOMAIN response.rows : response.rows[i].type = "period"}

\* the positions of the data lines
DataLines == {i \in DOMAIN response.rows : response.rows[i].type = "data"}

\* a period is parsable when it holds DD.MM.YYYY - DD.MM.YYYY
Parsable(period) == \E i \in 1..Len(period) : PeriodRangeAt(period, i)

\* the start date of a period as the number YYYYMMDD; an unparsable period
\* counts as later than every date
StartOf(period) ==
    IF ~Parsable(period) THEN 100000000
    ELSE LET i == CHOOSE k \in 1..Len(period) :
                    /\ PeriodRangeAt(period, k)
                    /\ \A l \in 1..(k - 1) : ~PeriodRangeAt(period, l)
         IN  ToInt(SubSeq(period, i + 6, i + 9)) * 10000
             + ToInt(SubSeq(period, i + 3, i + 4)) * 100
             + ToInt(SubSeq(period, i, i + 1))

\* C1: in the report, consecutive period headers are in ascending order of
\* period-start, and every header with an unparsable period comes strictly
\* after all headers with a parsable period.
C1_HeadersAscending ==
    IsReport =>
        \A i, j \in HeaderLines :
            /\ (i < j /\ ~\E k \in HeaderLines : i < k /\ k < j)
                  => StartOf(response.rows[i].period) <= StartOf(response.rows[j].period)
            /\ (~Parsable(response.rows[i].period) /\ Parsable(response.rows[j].period))
                  => j < i

C1_Witness ==
    /\ IsReport
    /\ \E a, b, c \in HeaderLines :
          /\ a < b /\ b < c
          /\ response.rows[a].period = "01.12.2022 - 31.12.2022"
          /\ response.rows[b].period = "01.01.2023 - 31.01.2023"
          /\ response.rows[c].period = ""
          /\ response.origin[a].id < response.origin[b].id
          /\ response.origin[c].id < response.origin[b].id

\* the uploads the report is made from: committed, with their file present
AvailableIds ==
    {id \in DOMAIN uploads :
        /\ uploads[id].is_committed = 1
        /\ FileExists(uploads[id].stored_path, tmp_files, perm_files)}

\* the Document parsed from upload id
DocOf(id) ==
    ParseReportPdf(Pdf(FileAt(uploads[id].stored_path, tmp_files, perm_files).content))

\* the qualified 9-tuple key of row j of upload id
QualifiedKey(id, j) ==
    LET d == DocOf(id)
        r == d.rows[j]
    IN  <<d.period, d.region, d.report_date,
          r.pay_no, r.iin_bin, r.bank_code, r.iik, r.kbk, r.amount_in>>

\* the uploads in the order of their headers
HeaderOrder ==
    LET isHeader(i) == i \in HeaderLines
        heads == SelectSeq([i \in DOMAIN response.rows |-> i], isHeader)
    IN  [k \in 1..Len(heads) |-> response.origin[heads[k]].id]

\* the records in the order the run meets them: <<position of the upload in
\* HeaderOrder, row>>
RunRecords ==
    UNION {{<<p, j>> : j \in DOMAIN DocOf(HeaderOrder[p]).rows} : p \in DOMAIN HeaderOrder}

Earlier(a, b) == a[1] < b[1] \/ (a[1] = b[1] /\ a[2] < b[2])

KeyOfRecord(a) == QualifiedKey(HeaderOrder[a[1]], a[2])

\* the record a is the origin of a data line
Emitted(a) ==
    \E i \in DataLines :
        /\ response.origin[i].id = HeaderOrder[a[1]]
        /\ response.origin[i].row = a[2]
        /\ \A h \in HeaderLines :
              response.origin[h].id = HeaderOrder[a[1]] =>
                  (h < i <=> Cardinality({x \in HeaderLines : x <= h}) <= a[1])

\* C3: in one run of page_report no two data lines come from records with
\* the same qualified 9-tuple key, and a record is emitted iff no record met
\* earlier in the run, in any document, has its key.
C3_GlobalDedup ==
    IsReport =>
        /\ \A i, j \in DataLines :
              i # j => QualifiedKey(response.origin[i].id, response.origin[i].row)
                       # QualifiedKey(response.origin[j].id, response.origin[j].row)
        /\ \A a \in RunRecords :
              Emitted(a) <=>
                  ~\E b \in RunRecords : Earlier(b, a) /\ KeyOfRecord(b) = KeyOfRecord(a)

C3_Witness ==
    /\ IsReport
    /\ \E a, b \in RunRecords :
          /\ b[1] < a[1]
          /\ KeyOfRecord(a) = KeyOfRecord(b)
          /\ Emitted(b)
          /\ ~Emitted(a)
    /\ \E a, b \in RunRecords :
          /\ a[1] = b[1] /\ a[2] # b[2]
          /\ Emitted(a) /\ Emitted(b)

\* the header line of data line i: the last header before it (0: none)
HeaderOf(i) ==
    IF \E h \in HeaderLines : h < i
    THEN CHOOSE h \in HeaderLines : h < i /\ \A k \in HeaderLines : k < i => k <= h
    ELSE 0

\* C4: the report has exactly one period-header line per available document,
\* and each header is followed at once, before the next header, by that
\* document's non-duplicate records in their original order.
C4_HeaderThenRecords ==
    IsReport =>
        /\ Cardinality(HeaderLines) = Cardinality(AvailableIds)
        /\ response.files_count = Cardinality(AvailableIds)
        /\ \A id \in AvailableIds :
              \E h \in HeaderLines :
                  /\ response.origin[h] = [id |-> id, row |-> 0]
                  /\ response.rows[h] = [type |-> "period", period |-> DocOf(id).period]
        /\ \A i \in DataLines :
              /\ HeaderOf(i) # 0
              /\ response.origin[i].id = response.origin[HeaderOf(i)].id
              /\ LET r == DocOf(response.origin[i].id).rows[response.origin[i].row]
                 IN  response.rows[i] =
                        [type |-> "data", iin_bin |-> r.iin_bin,
                         bank_code |-> r.bank_code, iik |-> r.iik,
                         kbk |-> r.kbk, amount_in |-> r.amount_in]
              /\ (i - 1 \in DataLines) =>
                     response.origin[i - 1].row < response.origin[i].row
        /\ \A a \in RunRecords :
              (~\E b \in RunRecords : Earlier(b, a) /\ KeyOfRecord(b) = KeyOfRecord(a))
                  => Emitted(a)

\* two documents with distinct periods and one distinct record each give
\* header, data, header, data
C4_Witness ==
    /\ IsReport
    /\ Cardinality(AvailableIds) = 2
    /\ Len(response.rows) = 4
    /\ response.rows[1] = [type |-> "period", period |-> "01.01.2023 - 31.01.2023"]
    /\ response.rows[2].type = "data" /\ response.rows[2].iin_bin = "123456789012"
    /\ response.rows[3] = [type |-> "period", period |-> "01.02.2023 - 28.02.2023"]
    /\ response.rows[4].type = "data" /\ response.rows[4].iin_bin = "987654321098"

\* the orders in which n documents can be handed over
HandOverOrders(n) ==
    {f \in [1..n -> 1..n] : \A a, b \in 1..n : a # b => f[a] # f[b]}

HandedFiles == ListUploads(uploads, 500)

\* what page_report answers when the files are handed over in the order f
ReportLinesIn(f) ==
    LET r == PageReportResponse([k \in DOMAIN HandedFiles |-> HandedFiles[f[k]]],
                                tmp_files, perm_files)
    IN  IF r.kind = "report" THEN r.rows ELSE <<r.kind>>

ReportLines == IF IsReport THEN response.rows ELSE <<response.kind>>

\* the period of the k-th of the files handed over
PeriodOfHanded(k) == DocOf(HandedFiles[k].id).period

\* f keeps the order of the documents whose periods start on the same date
KeepsTies(f) ==
    \A a, b \in DOMAIN HandedFiles :
        (a < b /\ StartOf(PeriodOfHanded(f[a])) = StartOf(PeriodOfHanded(f[b])))
            => f[a] < f[b]

\* C5 as claimed: in whatever order the documents are handed over, also
\* documents that share a period-start, page_report gives the same lines.
C5_AnyOrderSameReport ==
    response.kind \in {"report", "exception"} =>
        \A f \in HandOverOrders(Len(HandedFiles)) : ReportLinesIn(f) = ReportLines

\* C5 (amended): any two orders of the same documents that agree on the
\* relative order of the documents sharing a period-start (all unparsable
\* periods share the sentinel) give the same lines; documents sharing a
\* period-start come out in the order handed over.
C5_OrderOfTiesOnly ==
    response.kind \in {"report", "exception"} =>
        \A f \in HandOverOrders(Len(HandedFiles)) :
            KeepsTies(f) => ReportLinesIn(f) = ReportLines

C5_Witness ==
    /\ IsReport
    /\ Len(response.rows) >= 4
    /\ \E f \in HandOverOrders(Len(HandedFiles)) :
          /\ KeepsTies(f)
          /\ \E k \in DOMAIN HandedFiles : f[k] # k
          /\ ReportLinesIn(f) = response.rows

\* C6: computing a document's period-start never aborts the aggregation:
\* for every period the parser can produce, the document is kept and sorted.
C6_PeriodStartNeverAborts == response.kind # "exception"

-----------------------------------------------------------------------------
(* Properties of the storage under interleaved calls                        *)

Committed(row) == row.is_committed = 1

\* every row with is_committed = 1 has its stored_path under PERM_DIR
CommittedUnderPermDir ==
    \A k \in DOMAIN uploads :
        Committed(uploads[k]) => uploads[k].stored_path[1] = PERM_DIR

\* an upload whose temporary file cleanup_expired_files deleted is uncommitted
UnlinkedStaysUncommitted ==
    \A k \in DOMAIN uploads :
        uploads[k].id \in unlinked => ~Committed(uploads[k])

\* no step deletes the file of a committed upload, and a pass of the loop of
\* cleanup_expired_files leaves PERM_DIR as it is
KeepsCommittedFiles ==
    /\ \A k \in DOMAIN uploads :
          (/\ Committed(uploads[k])
           /\ FileExists(uploads[k].stored_path, tmp_files, perm_files))
          => /\ FileExists(uploads[k].stored_path, tmp_files', perm_files')
             /\ FileAt(uploads[k].stored_path, tmp_files', perm_files')
                  = FileAt(uploads[k].stored_path, tmp_files, perm_files)
    /\ (\E p \in cleanup.todo : CleanupFile(p)) => perm_files' = perm_files

\* a commit_uploads that returns names in 'missing' every requested id whose
\* temporary file cleanup_expired_files deleted
ReportsUnlinkedMissing ==
    \A w \in Workers :
        CommitReturn(w) =>
            \A i \in DOMAIN commit[w].ids :
                commit[w].ids[i] \in unlinked =>
                    \E j \in DOMAIN response'.missing :
                        response'.missing[j] = commit[w].ids[i]

\* C11: under every interleaving of the steps of save_temp_pdf,
\* cleanup_expired_files and commit_uploads, every row with is_committed = 1
\* has its stored_path under PERM_DIR; cleanup_expired_files deletes files of
\* TMP_DIR only and never the file of a committed upload; an upload whose
\* temporary file was deleted before its commit is listed in 'missing' by
\* the commit_uploads asked for it and its row stays uncommitted.
C11_CommittedFilesAreSafe ==
    /\ [](CommittedUnderPermDir /\ UnlinkedStaysUncommitted)
    /\ [][KeepsCommittedFiles /\ ReportsUnlinkedMissing]_vars

\* a commit answered 'missing' for an upload whose temporary file the cleanup
\* had deleted, its row is uncommitted; a later cleanup has visited every
\* file while a committed upload's file, older than the TTL, is still there
C11_Witness ==
    /\ response.kind = "commit"
    /\ \E k \in DOMAIN uploads, j \in DOMAIN response.missing :
          /\ uploads[k].id \in unlinked
          /\ response.missing[j] = uploads[k].id
          /\ ~Committed(uploads[k])
          /\ ~FileExists(uploads[k].stored_path, tmp_files, perm_files)
    /\ cleanup.running /\ cleanup.todo = {}
    /\ \E k \in DOMAIN uploads :
          /\ Committed(uploads[k])
          /\ uploads[k].stored_path[1] = PERM_DIR
          /\ FileExists(uploads[k].stored_path, tmp_files, perm_files)
          /\ cleanup.t - FileAt(uploads[k].stored_path, tmp_files, perm_files).mtime
                > TMP_TTL_SECONDS

=============================================================================
